---- MODULE Spec2Model ----
(***************************************************************************)
(* The load-cell sketch of h2lantern: setup() prints four diagnostic       *)
(* readings, loop() dispatches single-character serial commands            *)
(* (C)alibrate, (R)ead, (T)are, (A)DC on one HX711 load-cell instrument.   *)
(*                                                                         *)
(* Numbers.  A float is modelled as an exact rational <<n, d>> in lowest   *)
(* terms with d > 0, or as one of the non-finite values Inf = <<1, 0>>     *)
(* and NaN = <<0, 0>> that a division by zero produces.  Printing is       *)
(* modelled by what it does: Serial.println(x, k) rounds x to k decimals.  *)
(*                                                                         *)
(* Time.  The sketch is one thread.  It blocks in two places only: inside  *)
(* a raw read (until the converter delivers a sample) and inside           *)
(* Serial.parseFloat (until a byte arrives or the stream times out).  pc   *)
(* is the position of that thread; one action is one run of the thread     *)
(* from a blocking point to the next.                                      *)
(*                                                                         *)
(* The notebook.  The feasibility notebook's class LanternModel is the     *)
(* second program modelled here (LanternSpec): one object, its table of    *)
(* properties and the calls made on it.  A Python number is an exact       *)
(* rational <<n, d>> as above, and None is the empty tuple.                *)
(***************************************************************************)
EXTENDS Integers, Sequences, FiniteSets

\* ------------------------------------------------------------- bounds

\* Longest input stream made of arbitrary bytes.
MaxLen == 2
\* How many times the load on the cell changes during a run.
MaxLoadChanges == 1
\* How many __setitem__ calls are made on a lantern.
MaxCalls == 3

\* ------------------------------------------------------ program constants

avg_count == 10
SetupAverage == 20
SetupValueTimes == 5
SetupUnitsTimes == 5
\* HX711::tare's own averaging count.
TareCount == 5
\* Decimals of Serial.println(float) when none are given.
DefaultDigits == 2
UnitsDigits == 1

\* ------------------------------------------------------------ arithmetic

Abs(i) == IF i < 0 THEN 0 - i ELSE i

RECURSIVE GCD(_, _)
GCD(a, b) == IF b = 0 THEN a ELSE GCD(b, a % b)

\* The rational n/d (d # 0) in lowest terms with a positive denominator.
Norm(n, d) ==
    LET g == GCD(Abs(n), Abs(d))
        s == IF d < 0 THEN 0 - 1 ELSE 1
    IN  <<(s * n) \div g, (s * d) \div g>>

ToFloat(i) == <<i, 1>>

Inf == <<1, 0>>
NaN == <<0, 0>>
IsFinite(x) == x[2] # 0

FSub(x, y) == Norm(x[1] * y[2] - y[1] * x[2], x[2] * y[2])

\* Float division: x/0 is infinite (printed "inf" whatever its sign), 0/0 is
\* not a number.
FDiv(x, y) ==
    IF y[1] = 0
    THEN IF x[1] = 0 THEN NaN ELSE Inf
    ELSE Norm(x[1] * y[2], x[2] * y[1])

RECURSIVE Pow10(_)
Pow10(k) == IF k = 0 THEN 1 ELSE 10 * Pow10(k - 1)

\* What Print::printFloat shows of x with the given number of decimals: the
\* magnitude plus half a unit of the last place, cut after that place.
PrintFloat(x, digits) ==
    IF ~IsFinite(x) THEN x
    ELSE LET p == Pow10(digits)
             q == (2 * Abs(x[1]) * p + x[2]) \div (2 * x[2])
         IN  Norm(IF x[1] < 0 THEN 0 - q ELSE q, p)

\* Print::println(long): the integer itself.
PrintLong(i) == ToFloat(i)

\* ----------------------------------------------------------------- bytes

CommandBytes == {"C", "R", "T", "A"}
Digits == {"0", "1"}
Bytes == CommandBytes \cup Digits \cup {"Z", ".", "-", "\n"}

DigitValue(c) == IF c = "1" THEN 1 ELSE 0

\* The bytes an arbitrary input stream is made of: the commands that take no
\* argument and a byte that is no command.
FreeBytes == {"R", "T", "A", "Z"}

\* Input streams of the documented scenarios, and the calibrations: literals
\* of several forms, followed and preceded by other commands.
Scenarios ==
    { <<"C", "1", "0", ".", "0", "\n", "R">>,
      <<"T", "R", "T">>,
      <<"C", "1", "1", "R">>,
      <<"C", ".", "0", "0", "1">>,
      <<"C", "-", "1", "R">>,
      <<"C", "0", "R">>,
      <<"T", "C", "1", "1", "A">>,
      <<"C">>,
      <<"C", "R">>,
      <<"C", "C", "1">>,
      <<"C", "1", "T">>,
      <<"C", "1", "C", "0">>,
      <<"1", "R">>,
      <<"R", "C", "1", "Z">> }

\* The values the load cell's converter can deliver: 50 with the cell as it
\* is at power-up, 100 with a load put on it.
RawSamples == {50, 100}

\* ----------------------------------------------------------------- state

VARIABLES
    pc,          \* where the sketch's single thread is
    scale,       \* the sketch's global float scale
    OFFSET,      \* the instrument's tare offset
    SCALE,       \* the instrument's scale factor
    rx,          \* bytes received on the serial port and not yet read
    out,         \* what the sketch has printed on the serial port, oldest first
    sum,         \* read_average's running sum
    need,        \* raw samples read_average still has to take
    pv,          \* parseFloat's locals
    wire,        \* bytes of a scenario the host has not sent yet
    free,        \* how many arbitrary bytes the host may still send
    load,        \* the raw value the converter delivers at present
    changes,     \* how many times the load has changed
    sent,        \* history: every byte the host sent, in order
    got,         \* history: every byte the sketch read, in order, and what for
    log,         \* history: the operations begun, in order
    cur,         \* history: the operation begun last and the state it began in
    last,        \* history: the operation completed last
    nsamples,    \* history: raw samples taken since power-up
    self,        \* the notebook's LanternModel object
    call,        \* history: key and item of the last __setitem__ call
    raised,      \* history: the exception that call raised ("" if none)
    ncalls       \* history: how many __setitem__ calls have been made

inst == <<scale, OFFSET, SCALE>>
host == <<wire, free, sent>>
cell == <<load, changes>>
hist == <<log, cur, last>>

sketch == <<pc, inst, rx, out, sum, need, pv, host, cell, got, hist, nsamples>>
notebook == <<self, call, raised, ncalls>>

vars == <<sketch, notebook>>

SetupOps == {"setup_read", "setup_avg", "setup_value", "setup_units"}
CommandOps == {"cmdR", "cmdT", "cmdA"}
Sampling == SetupOps \cup CommandOps
Parsing == {"parse_skip", "parse_num"}

NoSamples == [r \in RawSamples |-> 0]

\* The history record of an operation that begins now, `outlen` items having
\* been printed: the state it begins in, the samples it took (none yet), the
\* bytes parseFloat consumed for it (none yet).
Begin(op, outlen) ==
    [op |-> op, off0 |-> OFFSET, sc0 |-> SCALE, out0 |-> outlen, out1 |-> outlen,
     ns0 |-> nsamples, taken |-> NoSamples, lit |-> <<>>]

\* History of an operation beginning, and of the one in progress completing
\* with `outlen` items printed.
Began(op, outlen) ==
    /\ cur' = Begin(op, outlen)
    /\ log' = Append(log, [op |-> op, start |-> outlen, end |-> 0 - 1, lit |-> <<>>])

Ended(outlen) ==
    /\ last' = [cur EXCEPT !.out1 = outlen]
    /\ log' = [log EXCEPT ![Len(log)].end = outlen, ![Len(log)].lit = cur.lit]
    /\ cur' = cur

EndedAndBegan(endlen, op, outlen) ==
    /\ last' = [cur EXCEPT !.out1 = endlen]
    /\ cur' = Begin(op, outlen)
    /\ log' = Append([log EXCEPT ![Len(log)].end = endlen],
                     [op |-> op, start |-> outlen, end |-> 0 - 1, lit |-> <<>>])

\* What a print call sends: a text, or a number as printed.
Text(text) == [text |-> text, val |-> <<>>]
Num(val) == [text |-> "", val |-> val]

NoParse == [neg |-> FALSE, frac |-> FALSE, mant |-> 0, den |-> 1]

\* -------------------------------------------------------- the instrument

\* HX711::read_average: the mean of the samples summed.
read_average(s, times) == FDiv(ToFloat(s), ToFloat(times))

\* HX711::get_value: the average less the tare offset.
get_value(avg, offset) == FSub(avg, offset)

\* HX711::get_units: the value divided by the scale factor.
get_units(avg, offset, sc) == FDiv(get_value(avg, offset), sc)

\* ------------------------------------------------- the notebook's lantern

\* Python's None, and whether a value is a number arithmetic accepts.
None == <<>>
IsNumber(x) == x # None

\* Python float arithmetic on numbers (no operand is None, no divisor zero).
PyAdd(x, y) ==
    LET g == GCD(x[2], y[2])
    IN  Norm(x[1] * (y[2] \div g) + y[1] * (x[2] \div g), (x[2] \div g) * y[2])

PySub(x, y) == PyAdd(x, <<0 - y[1], y[2]>>)

PyMul(x, y) ==
    LET g1 == GCD(Abs(x[1]), y[2])
        g2 == GCD(Abs(y[1]), x[2])
    IN  Norm((x[1] \div g1) * (y[1] \div g2), (x[2] \div g2) * (y[2] \div g1))

PyDiv(x, y) == PyMul(x, IF y[1] < 0 THEN <<0 - y[2], 0 - y[1]>> ELSE <<y[2], y[1]>>)

\* np.pi, to the precision the model's rationals carry.
np_pi == <<22, 7>>

rho_air == Norm(129, 100)
rho_h2 == Norm(9, 100)
rho_he == Norm(18, 100)
rhos_mylar == Norm(1634, 1000000)
rhos_tissue == Norm(1414, 1000000)

cm3_per_L == 1000
r_cyl == 20
lift_mass == {50, 60, 70, 80, 90, 100}
shell_offset == 2
u_wind_max == 100

prop_keys ==
    <<"Volume (L)", "H (cm)", "S (cm2)", "So (cm2)", "Mylar mass (g)",
      "Tissue mass (g)", "Payload cap. (g)", "Fd (N)">>

\* prop_keys[i] as Python indexes it, from 0.
Key(i) == prop_keys[i + 1]

\* x in a list.
In(x, list) == \E i \in 1..Len(list) : list[i] = x

\* d[k] = v on a dict: the entry is replaced, or added when k is new.
Store(d, k, v) == [x \in DOMAIN d \cup {k} |-> IF x = k THEN v ELSE d[x]]

\* LanternModel.drag
drag(s) ==
    LET ho == PyAdd(s.prop_table[Key(1)], PyMul(ToFloat(2), s.t_shell_offset))
        ro == PyAdd(s.r_cyl, s.t_shell_offset)
        Aref == PyMul(ho, PyMul(ToFloat(2), ro))
        half_rho == PyMul(<<1, 2>>, PyDiv(rho_air, ToFloat(cm3_per_L)))
    IN  PyDiv(PyDiv(PyMul(PyMul(PyMul(half_rho, PyMul(s.u_wind, s.u_wind)), Aref),
                          s.c_d_cyl),
                    ToFloat(1000)),
              ToFloat(100))

\* LanternModel.payload_capacity
payload_capacity(s) ==
    PySub(PySub(s.m_lift, s.prop_table[Key(4)]), s.prop_table[Key(5)])

\* LanternModel.__getitem__
__getitem__(s, key) == s.prop_table[key]

\* Mutant of _invalidate_prop_table: the drag is not recomputed.
_invalidate_prop_table_PayloadOnly(s) ==
    IF ~(IsNumber(s.prop_table[Key(4)]) /\ IsNumber(s.prop_table[Key(5)]))
    THEN [self |-> s, raised |-> "TypeError"]
    ELSE [self |-> [s EXCEPT !.prop_table = Store(@, Key(6), payload_capacity(s))],
          raised |-> ""]

\* LanternModel._invalidate_prop_table on object s: the object it leaves and
\* the exception it raises.  An operand that is no number makes the
\* subtraction in payload_capacity, or the addition in drag, raise TypeError,
\* and what was assigned before stays.
_invalidate_prop_table(s) ==
    IF ~(IsNumber(s.prop_table[Key(4)]) /\ IsNumber(s.prop_table[Key(5)]))
    THEN [self |-> s, raised |-> "TypeError"]
    ELSE LET s1 == [s EXCEPT !.prop_table = Store(@, Key(6), payload_capacity(s))]
         IN  IF ~IsNumber(s1.prop_table[Key(1)])
             THEN [self |-> s1, raised |-> "TypeError"]
             ELSE [self |-> [s1 EXCEPT !.prop_table = Store(@, Key(7), drag(s1))],
                   raised |-> ""]

\* LanternModel.__init__ for a gas type it accepts: the object constructed.
__init__(m_lift, gas_type, r, t_offset, u_wind) ==
    LET d_rho == IF gas_type = "H2" THEN PySub(rho_air, rho_h2)
                 ELSE PySub(rho_air, rho_he)
        v_h2 == PyDiv(m_lift, d_rho)
        h_cyl == PyDiv(PyMul(v_h2, ToFloat(cm3_per_L)), PyMul(np_pi, PyMul(r, r)))
        S_cyl == PyAdd(PyMul(h_cyl, PyMul(PyMul(ToFloat(2), np_pi), r)),
                       PyMul(PyMul(ToFloat(2), np_pi), PyMul(r, r)))
        ho == PyAdd(h_cyl, PyMul(ToFloat(2), t_offset))
        ro == PyAdd(r, t_offset)
        So_cyl == PyAdd(PyMul(ho, PyMul(PyMul(ToFloat(2), np_pi), ro)),
                        PyMul(PyMul(ToFloat(2), np_pi), PyMul(ro, ro)))
        m_mylar == PyMul(rhos_mylar, S_cyl)
        m_tissue == PyMul(rhos_tissue, So_cyl)
        s0 == [c_d_cyl |-> Norm(117, 100),
               m_lift |-> m_lift,
               r_cyl |-> r,
               t_shell_offset |-> t_offset,
               u_wind |-> u_wind,
               prop_table |->
                   Store(Store(Store(Store(Store(Store(<<>>,
                       Key(0), v_h2), Key(1), h_cyl), Key(2), S_cyl), Key(3), So_cyl),
                       Key(4), m_mylar), Key(5), m_tissue)]
        s1 == [s0 EXCEPT !.prop_table = Store(@, Key(6), payload_capacity(s0))]
    IN  [s1 EXCEPT !.prop_table = Store(@, Key(7), drag(s1))]

\* No __setitem__ call has been made yet.
NoCall == [key |-> "", item |-> None]

\* The sketch at power-up.
SketchInit ==
    /\ pc = "setup_begin"
    /\ scale = ToFloat(1)
    /\ OFFSET = ToFloat(0)
    /\ SCALE = ToFloat(1)
    /\ rx = <<>>
    /\ out = <<>>
    /\ sum = 0
    /\ need = 0
    /\ pv = NoParse
    /\ wire \in Scenarios \cup {<<>>}
    /\ free = IF wire = <<>> THEN MaxLen ELSE 0
    /\ load = 50
    /\ changes = 0
    /\ sent = <<>>
    /\ got = <<>>
    /\ log = <<>>
    /\ cur = [op |-> "setup_begin", off0 |-> ToFloat(0), sc0 |-> ToFloat(1),
              out0 |-> 0, out1 |-> 0, ns0 |-> 0, taken |-> NoSamples, lit |-> <<>>]
    /\ last = cur
    /\ nsamples = 0

\* The sketch at power-up; the notebook's first lantern stands by, untouched
\* by anything the sketch does.
Init ==
    /\ SketchInit
    /\ self = __init__(ToFloat(50), "H2", ToFloat(r_cyl), ToFloat(shell_offset),
                       ToFloat(u_wind_max))
    /\ call = NoCall
    /\ raised = ""
    /\ ncalls = 0

\* -------------------------------------------------------- the environment

\* The host sends a byte: the next one of its scenario, or any byte.
Arrive ==
    /\ \E b \in Bytes :
          /\ \/ /\ wire # <<>>
                /\ b = Head(wire)
                /\ wire' = Tail(wire)
                /\ free' = free
             \/ /\ free > 0
                /\ b \in FreeBytes
                /\ free' = free - 1
                /\ wire' = wire
          /\ rx' = Append(rx, b)
          /\ sent' = Append(sent, b)
    /\ UNCHANGED <<pc, inst, out, sum, need, pv, cell, got, hist, nsamples, notebook>>

\* The load on the cell changes (seen by the next raw read).
ChangeLoad ==
    /\ pc \in Sampling
    /\ need > 0
    /\ changes < MaxLoadChanges
    /\ load' \in RawSamples \ {load}
    /\ changes' = changes + 1
    /\ UNCHANGED <<pc, inst, rx, out, sum, need, pv, host, got, hist, nsamples, notebook>>

\* ------------------------------------------------------------- raw reads

\* HX711::read inside read_average: the converter is ready and one sample is
\* shifted out and added to the sum.
ReadRaw ==
    /\ pc \in Sampling
    /\ need > 0
    /\ sum' = sum + load
    /\ need' = need - 1
    /\ cur' = [cur EXCEPT !.taken[load] = @ + 1]
    /\ nsamples' = nsamples + 1
    /\ UNCHANGED <<pc, inst, rx, out, pv, host, cell, got, log, last, notebook>>

\* The thread enters a read of `times` samples at position `op`.
StartRead(op, times) ==
    /\ pc' = op
    /\ sum' = 0
    /\ need' = times

\* ----------------------------------------------------------------- setup

\* setup() up to its first raw read: the banner, and the label of the reading
\* that follows.
SetupBegin ==
    /\ pc = "setup_begin"
    /\ out' = out \o <<Text("Initializing scale"), Text("  + Averaging: "),
                        Num(PrintLong(avg_count)), Text(" + read: ")>>
    /\ StartRead("setup_read", 1)
    /\ Began("setup_read", Len(out'))
    /\ last' = last
    /\ UNCHANGED <<inst, rx, pv, host, cell, got, nsamples, notebook>>

\* loadcell.read() returned: print it, then start loadcell.read_average(20).
SetupRead ==
    /\ pc = "setup_read"
    /\ need = 0
    /\ out' = out \o <<Num(PrintLong(sum)), Text(" + read average: ")>>
    /\ StartRead("setup_avg", SetupAverage)
    /\ EndedAndBegan(Len(out) + 1, "setup_avg", Len(out'))
    /\ UNCHANGED <<inst, rx, pv, host, cell, got, nsamples, notebook>>

\* Mutant of SetupAvg: get_value(5) is left out, get_units(5) follows at once.
SetupAvg_SkipsValue ==
    /\ pc = "setup_avg"
    /\ need = 0
    /\ out' = out \o <<Num(PrintFloat(read_average(sum, SetupAverage), DefaultDigits)),
                        Text(" + get units: ")>>
    /\ StartRead("setup_units", SetupUnitsTimes)
    /\ EndedAndBegan(Len(out) + 1, "setup_units", Len(out'))
    /\ UNCHANGED <<inst, rx, pv, host, cell, got, nsamples, notebook>>

\* Mutant of SetupAvg: setup tares with the average it has just read.
SetupAvg_Tares ==
    /\ pc = "setup_avg"
    /\ need = 0
    /\ out' = out \o <<Num(PrintFloat(read_average(sum, SetupAverage), DefaultDigits)),
                        Text(" + get value: ")>>
    /\ OFFSET' = read_average(sum, SetupAverage)
    /\ StartRead("setup_value", SetupValueTimes)
    /\ EndedAndBegan(Len(out) + 1, "setup_value", Len(out'))
    /\ UNCHANGED <<scale, SCALE, rx, pv, host, cell, got, nsamples, notebook>>

\* read_average(20) returned: print it, then start loadcell.get_value(5).
SetupAvg ==
    /\ pc = "setup_avg"
    /\ need = 0
    /\ out' = out \o <<Num(PrintFloat(read_average(sum, SetupAverage), DefaultDigits)),
                        Text(" + get value: ")>>
    /\ StartRead("setup_value", SetupValueTimes)
    /\ EndedAndBegan(Len(out) + 1, "setup_value", Len(out'))
    /\ UNCHANGED <<inst, rx, pv, host, cell, got, nsamples, notebook>>

\* get_value(5) returned: print it, then start loadcell.get_units(5).
SetupValue ==
    /\ pc = "setup_value"
    /\ need = 0
    /\ out' = out \o <<Num(PrintFloat(get_value(read_average(sum, SetupValueTimes), OFFSET),
                                       DefaultDigits)),
                        Text(" + get units: ")>>
    /\ StartRead("setup_units", SetupUnitsTimes)
    /\ EndedAndBegan(Len(out) + 1, "setup_units", Len(out'))
    /\ UNCHANGED <<inst, rx, pv, host, cell, got, nsamples, notebook>>

\* Mutant of SetupUnits: setup ends by setting a calibration factor, as the
\* instrument library's example sketch does.
SetupUnits_SetsScale ==
    /\ pc = "setup_units"
    /\ need = 0
    /\ out' = out \o <<Num(PrintFloat(get_units(read_average(sum, SetupUnitsTimes), OFFSET, SCALE),
                                       UnitsDigits)),
                        Text("Commands: (R)ead, (T)are, (C)alibrate, (A)DC")>>
    /\ SCALE' = ToFloat(2280)
    /\ pc' = "idle"
    /\ Ended(Len(out) + 1)
    /\ UNCHANGED <<scale, OFFSET, rx, sum, need, pv, host, cell, got, nsamples, notebook>>

\* get_units(5) returned: print it and the command list; setup() returns and
\* loop() starts.
SetupUnits ==
    /\ pc = "setup_units"
    /\ need = 0
    /\ out' = out \o <<Num(PrintFloat(get_units(read_average(sum, SetupUnitsTimes), OFFSET, SCALE),
                                       UnitsDigits)),
                        Text("Commands: (R)ead, (T)are, (C)alibrate, (A)DC")>>
    /\ pc' = "idle"
    /\ Ended(Len(out) + 1)
    /\ UNCHANGED <<inst, rx, sum, need, pv, host, cell, got, nsamples, notebook>>

\* ------------------------------------------------------------------ loop

\* Mutant of LoopIdle: the cell is polled on every pass through loop().
LoopIdle_Polls ==
    /\ pc = "idle"
    /\ rx = <<>>
    /\ nsamples' = nsamples + 1
    /\ UNCHANGED <<pc, inst, rx, out, sum, need, pv, host, cell, got, hist, notebook>>

\* loop() with no byte available: the body of the if is skipped.
LoopIdle ==
    /\ pc = "idle"
    /\ rx = <<>>
    /\ UNCHANGED vars

\* Mutant of ReadByte: the byte received last is taken first.
ReadByte_Newest(use) ==
    /\ rx # <<>>
    /\ rx' = SubSeq(rx, 1, Len(rx) - 1)
    /\ got' = Append(got, [byte |-> rx[Len(rx)], use |-> use])

\* Serial.read() takes the first byte received; `use` is what the sketch does
\* with it.
ReadByte(use) ==
    /\ rx # <<>>
    /\ rx' = Tail(rx)
    /\ got' = Append(got, [byte |-> Head(rx), use |-> use])

\* case 'R': loadcell.get_units(avg_count) starts.
CmdR ==
    /\ pc = "idle"
    /\ rx # <<>> /\ Head(rx) = "R"
    /\ ReadByte("command")
    /\ StartRead("cmdR", avg_count)
    /\ Began("cmdR", Len(out))
    /\ UNCHANGED <<inst, out, pv, host, cell, last, nsamples, notebook>>

\* Mutant of CmdRDone: the raw average is printed, as case 'A' does.
CmdRDone_Raw ==
    /\ pc = "cmdR"
    /\ need = 0
    /\ out' = Append(out, Num(PrintFloat(read_average(sum, avg_count), UnitsDigits)))
    /\ pc' = "idle"
    /\ Ended(Len(out'))
    /\ UNCHANGED <<inst, rx, sum, need, pv, host, cell, got, nsamples, notebook>>

\* Mutant of CmdRDone: the break is missing and case 'T' follows.
CmdRDone_FallsThrough ==
    /\ pc = "cmdR"
    /\ need = 0
    /\ out' = Append(out, Num(PrintFloat(get_units(read_average(sum, avg_count), OFFSET, SCALE),
                                          UnitsDigits)))
    /\ StartRead("cmdT", TareCount)
    /\ EndedAndBegan(Len(out'), "cmdT", Len(out'))
    /\ UNCHANGED <<inst, rx, pv, host, cell, got, nsamples, notebook>>

\* Mutant of CmdRDone: the reading is not corrected by the tare offset.
CmdRDone_NoOffset ==
    /\ pc = "cmdR"
    /\ need = 0
    /\ out' = Append(out, Num(PrintFloat(get_units(read_average(sum, avg_count), ToFloat(0), SCALE),
                                          UnitsDigits)))
    /\ pc' = "idle"
    /\ Ended(Len(out'))
    /\ UNCHANGED <<inst, rx, sum, need, pv, host, cell, got, nsamples, notebook>>

\* Mutant of CmdRDone: the sketch gives up waiting and reports what has been
\* read so far.
CmdRDone_GivesUp ==
    /\ pc = "cmdR"
    /\ out' = Append(out, Num(PrintFloat(get_units(read_average(sum, avg_count), OFFSET, SCALE),
                                          UnitsDigits)))
    /\ pc' = "idle"
    /\ need' = 0
    /\ Ended(Len(out'))
    /\ UNCHANGED <<inst, rx, sum, pv, host, cell, got, nsamples, notebook>>

\* get_units(avg_count) returned: print it with one decimal.
CmdRDone ==
    /\ pc = "cmdR"
    /\ need = 0
    /\ out' = Append(out, Num(PrintFloat(get_units(read_average(sum, avg_count), OFFSET, SCALE),
                                          UnitsDigits)))
    /\ pc' = "idle"
    /\ Ended(Len(out'))
    /\ UNCHANGED <<inst, rx, sum, need, pv, host, cell, got, nsamples, notebook>>

\* case 'T': loadcell.tare() starts.
CmdT ==
    /\ pc = "idle"
    /\ rx # <<>> /\ Head(rx) = "T"
    /\ ReadByte("command")
    /\ StartRead("cmdT", TareCount)
    /\ Began("cmdT", Len(out))
    /\ UNCHANGED <<inst, out, pv, host, cell, last, nsamples, notebook>>

\* Mutant of CmdTDone: the new offset is printed.
CmdTDone_Prints ==
    /\ pc = "cmdT"
    /\ need = 0
    /\ OFFSET' = read_average(sum, TareCount)
    /\ out' = Append(out, Num(PrintFloat(OFFSET', DefaultDigits)))
    /\ pc' = "idle"
    /\ Ended(Len(out'))
    /\ UNCHANGED <<scale, SCALE, rx, sum, need, pv, host, cell, got, nsamples, notebook>>

\* Mutant of CmdTDone: the tare is taken relative to the offset in force.
CmdTDone_Relative ==
    /\ pc = "cmdT"
    /\ need = 0
    /\ OFFSET' = get_value(read_average(sum, TareCount), OFFSET)
    /\ pc' = "idle"
    /\ Ended(Len(out))
    /\ UNCHANGED <<scale, SCALE, rx, out, sum, need, pv, host, cell, got, nsamples, notebook>>

\* tare(): the average read becomes the offset.
CmdTDone ==
    /\ pc = "cmdT"
    /\ need = 0
    /\ OFFSET' = read_average(sum, TareCount)
    /\ pc' = "idle"
    /\ Ended(Len(out))
    /\ UNCHANGED <<scale, SCALE, rx, out, sum, need, pv, host, cell, got, nsamples, notebook>>

\* Mutant of CmdA: the average is asked over the count of setup's get_value.
CmdA_WrongCount ==
    /\ pc = "idle"
    /\ rx # <<>> /\ Head(rx) = "A"
    /\ ReadByte("command")
    /\ StartRead("cmdA", SetupValueTimes)
    /\ Began("cmdA", Len(out))
    /\ UNCHANGED <<inst, out, pv, host, cell, last, nsamples, notebook>>

\* case 'A': loadcell.read_average(avg_count) starts.
CmdA ==
    /\ pc = "idle"
    /\ rx # <<>> /\ Head(rx) = "A"
    /\ ReadByte("command")
    /\ StartRead("cmdA", avg_count)
    /\ Began("cmdA", Len(out))
    /\ UNCHANGED <<inst, out, pv, host, cell, last, nsamples, notebook>>

\* Mutant of CmdADone: the reading in units is printed, as case 'R' does.
CmdADone_Units ==
    /\ pc = "cmdA"
    /\ need = 0
    /\ out' = Append(out, Num(PrintFloat(get_units(read_average(sum, avg_count), OFFSET, SCALE),
                                          DefaultDigits)))
    /\ pc' = "idle"
    /\ Ended(Len(out'))
    /\ UNCHANGED <<inst, rx, sum, need, pv, host, cell, got, nsamples, notebook>>

\* read_average(avg_count) returned: print it.
CmdADone ==
    /\ pc = "cmdA"
    /\ need = 0
    /\ out' = Append(out, Num(PrintFloat(read_average(sum, avg_count), DefaultDigits)))
    /\ pc' = "idle"
    /\ Ended(Len(out'))
    /\ UNCHANGED <<inst, rx, sum, need, pv, host, cell, got, nsamples, notebook>>

\* Mutant of CmdOther: an unknown byte is answered with a question mark.
CmdOther_Echo ==
    /\ pc = "idle"
    /\ rx # <<>> /\ Head(rx) \notin CommandBytes
    /\ ReadByte("command")
    /\ out' = Append(out, Text("?"))
    /\ cur' = [Begin("other", Len(out)) EXCEPT !.out1 = Len(out')]
    /\ last' = cur'
    /\ log' = Append(log, [op |-> "other", start |-> Len(out), end |-> Len(out'),
                           lit |-> <<>>])
    /\ UNCHANGED <<pc, inst, sum, need, pv, host, cell, nsamples, notebook>>

\* Mutant of CmdOther: an unknown byte stops the sketch.
CmdOther_Halts ==
    /\ pc = "idle"
    /\ rx # <<>> /\ Head(rx) \notin CommandBytes
    /\ ReadByte("command")
    /\ pc' = "halted"
    /\ cur' = Begin("other", Len(out))
    /\ last' = cur'
    /\ log' = Append(log, [op |-> "other", start |-> Len(out), end |-> Len(out),
                           lit |-> <<>>])
    /\ UNCHANGED <<inst, out, sum, need, pv, host, cell, nsamples, notebook>>

\* default: the byte is dropped.
CmdOther ==
    /\ pc = "idle"
    /\ rx # <<>> /\ Head(rx) \notin CommandBytes
    /\ ReadByte("command")
    /\ cur' = Begin("other", Len(out))
    /\ last' = cur'
    /\ log' = Append(log, [op |-> "other", start |-> Len(out), end |-> Len(out),
                           lit |-> <<>>])
    /\ UNCHANGED <<pc, inst, out, sum, need, pv, host, cell, nsamples, notebook>>

\* ------------------------------------------------------------ calibration

\* case 'C': Serial.parseFloat() starts, looking for the start of a number.
CmdC ==
    /\ pc = "idle"
    /\ rx # <<>> /\ Head(rx) = "C"
    /\ ReadByte("command")
    /\ pc' = "parse_skip"
    /\ pv' = NoParse
    /\ Began("cmdC", Len(out))
    /\ UNCHANGED <<inst, out, sum, need, host, cell, last, nsamples, notebook>>

\* parseFloat's do-body for one numeric byte c.
ParseStep(p, c) ==
    IF c = "-" THEN [p EXCEPT !.neg = TRUE]
    ELSE IF c = "." THEN [p EXCEPT !.frac = TRUE]
    ELSE IF p.frac
         THEN [p EXCEPT !.mant = 10 * @ + DigitValue(c), !.den = 10 * @]
         ELSE [p EXCEPT !.mant = 10 * @ + DigitValue(c)]

\* The float parseFloat returns from its locals.
ParseValue(p) == Norm(IF p.neg THEN 0 - p.mant ELSE p.mant, p.den)

\* Mutant of Calibrate: a zero is rejected and the scale kept.
Calibrate_RejectZero(v) ==
    /\ scale' = IF v = ToFloat(0) THEN scale ELSE v
    /\ SCALE' = scale'
    /\ out' = out \o <<Text("Scale calibrated: "), Num(PrintFloat(scale', DefaultDigits))>>
    /\ pc' = "idle"
    /\ Ended(Len(out'))

\* Mutant of Calibrate: scale is declared int, and the value parsed is cut to
\* its integer part.
Calibrate_Int(v) ==
    /\ scale' = ToFloat((IF v[1] < 0 THEN 0 - 1 ELSE 1) * (Abs(v[1]) \div v[2]))
    /\ SCALE' = scale'
    /\ out' = out \o <<Text("Scale calibrated: "), Num(PrintLong(scale'[1]))>>
    /\ pc' = "idle"
    /\ Ended(Len(out'))

\* Mutant of Calibrate: the value parsed is kept in the sketch's global and
\* not passed on to the instrument.
Calibrate_NoSetScale(v) ==
    /\ scale' = v
    /\ SCALE' = SCALE
    /\ out' = out \o <<Text("Scale calibrated: "), Num(PrintFloat(scale', DefaultDigits))>>
    /\ pc' = "idle"
    /\ Ended(Len(out'))

\* The rest of case 'C' once parseFloat returned v.
Calibrate(v) ==
    /\ scale' = v
    /\ SCALE' = scale'
    /\ out' = out \o <<Text("Scale calibrated: "), Num(PrintFloat(scale', DefaultDigits))>>
    /\ pc' = "idle"
    /\ Ended(Len(out'))

\* peekNextDigit discards a byte that cannot start a number.
ParseSkip ==
    /\ pc = "parse_skip"
    /\ rx # <<>> /\ Head(rx) \notin Digits \cup {"-", "."}
    /\ ReadByte("skipped")
    /\ UNCHANGED <<pc, inst, out, sum, need, pv, host, cell, hist, nsamples, notebook>>

\* The first byte of the number is consumed.
ParseFirst ==
    /\ pc = "parse_skip"
    /\ rx # <<>> /\ Head(rx) \in Digits \cup {"-", "."}
    /\ pv' = ParseStep(pv, Head(rx))
    /\ ReadByte("number")
    /\ pc' = "parse_num"
    /\ cur' = [cur EXCEPT !.lit = Append(@, Head(rx))]
    /\ UNCHANGED <<inst, out, sum, need, host, cell, log, last, nsamples, notebook>>

\* Whether parseFloat's loop goes on with byte c.
Continues(p, c) == c \in Digits \/ (c = "." /\ ~p.frac)

\* A further byte of the number is consumed.
ParseMore ==
    /\ pc = "parse_num"
    /\ rx # <<>> /\ Continues(pv, Head(rx))
    /\ pv' = ParseStep(pv, Head(rx))
    /\ ReadByte("number")
    /\ cur' = [cur EXCEPT !.lit = Append(@, Head(rx))]
    /\ UNCHANGED <<pc, inst, out, sum, need, host, cell, log, last, nsamples, notebook>>

\* Mutant of ParseStop: the byte that ends the number is read, not peeked.
ParseStop_Consumes ==
    /\ pc = "parse_num"
    /\ rx # <<>> /\ ~Continues(pv, Head(rx))
    /\ ReadByte("skipped")
    /\ Calibrate(ParseValue(pv))
    /\ UNCHANGED <<OFFSET, sum, need, pv, host, cell, nsamples, notebook>>

\* The byte after the number is seen and left in the buffer: parseFloat
\* returns the number.
ParseStop ==
    /\ pc = "parse_num"
    /\ rx # <<>> /\ ~Continues(pv, Head(rx))
    /\ Calibrate(ParseValue(pv))
    /\ UNCHANGED <<OFFSET, rx, sum, need, pv, host, cell, got, nsamples, notebook>>

\* No byte arrives within the stream's timeout: parseFloat returns what it
\* has, which is 0 when no number started.
ParseTimeout ==
    /\ pc \in Parsing
    /\ rx = <<>>
    /\ Calibrate(IF pc = "parse_skip" THEN ToFloat(0) ELSE ParseValue(pv))
    /\ UNCHANGED <<OFFSET, rx, sum, need, pv, host, cell, got, nsamples, notebook>>

\* ------------------------------------------------------------------ spec

Next ==
    \/ Arrive
    \/ ChangeLoad
    \/ ReadRaw
    \/ SetupBegin
    \/ SetupRead
    \/ SetupAvg
    \/ SetupValue
    \/ SetupUnits
    \/ LoopIdle
    \/ CmdR
    \/ CmdRDone
    \/ CmdT
    \/ CmdTDone
    \/ CmdA
    \/ CmdADone
    \/ CmdOther
    \/ CmdC
    \/ ParseSkip
    \/ ParseFirst
    \/ ParseMore
    \/ ParseStop
    \/ ParseTimeout

Spec == Init /\ [][Next]_vars

\* ------------------------------------------------------- the notebook's runs

\* What __setitem__ is called with: the property keys and one key that is
\* none; a number and a value that is none.
Keys == {prop_keys[i] : i \in 1..Len(prop_keys)} \cup {"Lift (g)"}
Items == {ToFloat(10), None}
GasTypes == {"H2", "He"}

\* Mutant of __setitem__: the key is not checked, as on a plain dict.
__setitem__Unchecked(key, item) ==
    /\ ncalls < MaxCalls
    /\ ncalls' = ncalls + 1
    /\ call' = [key |-> key, item |-> item]
    /\ LET r == _invalidate_prop_table([self EXCEPT !.prop_table = Store(@, key, item)])
       IN  /\ self' = r.self
           /\ raised' = r.raised
    /\ UNCHANGED sketch

\* Mutant of __setitem__: a payload assigned is kept, the lift mass being
\* adjusted to carry it.
__setitem__AdjustsLift(key, item) ==
    /\ ncalls < MaxCalls
    /\ ncalls' = ncalls + 1
    /\ call' = [key |-> key, item |-> item]
    /\ IF ~In(key, prop_keys)
       THEN /\ raised' = "KeyError"
            /\ self' = self
       ELSE LET s0 == IF /\ key = Key(6) /\ IsNumber(item)
                         /\ IsNumber(self.prop_table[Key(4)])
                         /\ IsNumber(self.prop_table[Key(5)])
                      THEN [self EXCEPT !.m_lift = PyAdd(PyAdd(item, self.prop_table[Key(4)]),
                                                         self.prop_table[Key(5)])]
                      ELSE self
                r == _invalidate_prop_table([s0 EXCEPT !.prop_table = Store(@, key, item)])
            IN  /\ self' = r.self
                /\ raised' = r.raised
    /\ UNCHANGED sketch

\* LanternModel.__setitem__(key, item).
__setitem__(key, item) ==
    /\ ncalls < MaxCalls
    /\ ncalls' = ncalls + 1
    /\ call' = [key |-> key, item |-> item]
    /\ IF ~In(key, prop_keys)
       THEN /\ raised' = "KeyError"
            /\ self' = self
       ELSE LET r == _invalidate_prop_table([self EXCEPT !.prop_table = Store(@, key, item)])
            IN  /\ self' = r.self
                /\ raised' = r.raised
    /\ UNCHANGED sketch

\* A lantern as the notebook constructs them, for either gas.
LanternInit ==
    /\ SketchInit
    /\ wire = <<>>
    /\ \E ml \in lift_mass, gas_type \in GasTypes :
          self = __init__(ToFloat(ml), gas_type, ToFloat(r_cyl), ToFloat(shell_offset),
                          ToFloat(u_wind_max))
    /\ call = NoCall
    /\ raised = ""
    /\ ncalls = 0

LanternNext == \E key \in Keys, item \in Items : __setitem__(key, item)

LanternSpec == LanternInit /\ [][LanternNext]_vars

\* ------------------------------------------------ what the claims speak of

RECURSIVE SumOver(_, _)
SumOver(S, f) ==
    IF S = {} THEN 0
    ELSE LET x == CHOOSE y \in S : TRUE IN f[x] + SumOver(S \ {x}, f)

\* How many samples a history record holds, their total and their mean.
Count(t) == SumOver(RawSamples, t)
Total(t) == SumOver(RawSamples, [r \in RawSamples |-> r * t[r]])
MeanOf(t) == FDiv(ToFloat(Total(t)), ToFloat(Count(t)))

Only(r, k) == [x \in RawSamples |-> IF x = r THEN k ELSE 0]

\* The number a literal denotes: its digits read as one integer, divided by
\* ten for every digit after the point, negated after a minus sign.
RECURSIVE DigitsOf(_)
DigitsOf(lit) ==
    IF lit = <<>> THEN 0
    ELSE LET c == lit[Len(lit)]
             rest == DigitsOf(SubSeq(lit, 1, Len(lit) - 1))
         IN  IF c \in Digits THEN 10 * rest + DigitValue(c) ELSE rest

RECURSIVE Decimals(_)
Decimals(lit) ==
    IF lit = <<>> THEN 0
    ELSE LET c == lit[Len(lit)]
         IN  IF c = "." THEN 0
             ELSE IF \E i \in 1..Len(lit) : lit[i] = "."
                  THEN 1 + Decimals(SubSeq(lit, 1, Len(lit) - 1))
                  ELSE 0

LitValue(lit) ==
    Norm(IF lit # <<>> /\ lit[1] = "-" THEN 0 - DigitsOf(lit) ELSE DigitsOf(lit),
         Pow10(Decimals(lit)))

\* The bytes the sketch read, in order.
BytesGot == [i \in 1..Len(got) |-> got[i].byte]

\* The byte dispatched last as a command ("" before the first).
LastCommand ==
    LET idx == {i \in 1..Len(got) : got[i].use = "command"}
    IN  IF idx = {} THEN ""
        ELSE got[CHOOSE i \in idx : \A j \in idx : j <= i].byte

\* The operation a command byte starts.
OpOf(b) ==
    CASE b = "C" -> "cmdC"
      [] b = "R" -> "cmdR"
      [] b = "T" -> "cmdT"
      [] b = "A" -> "cmdA"
      [] OTHER -> "other"

IsCommand(g) == g.use = "command"
IsLoopOp(e) == e.op \notin SetupOps

SetupOrder == <<"setup_read", "setup_avg", "setup_value", "setup_units">>

\* The unit-scaled reading of the operation completed last, from its history:
\* (mean of its samples - offset at dispatch) / scale at dispatch.
UnitsOfLast == FDiv(FSub(MeanOf(last.taken), last.off0), last.sc0)

\* ---------------------------------------------------------------- claims

\* C1 as stated: an 'R' command reports exactly (mean of its 10 samples -
\* offset) / scale, offset and scale being those held at dispatch.
C1_ReportsExactUnits ==
    last.op = "cmdR" =>
        /\ Count(last.taken) = 10
        /\ last.out1 = last.out0 + 1
        /\ out[last.out1] = Num(UnitsOfLast)

\* C1 amended: an 'R' command reports (mean of its 10 samples - offset) /
\* scale rounded to one decimal place; with samples constant at 100, offset 0
\* and scale 10 that is 10.0, with samples constant at 50, offset 50 (a tare
\* at 50) and scale 1 it is 0.0, and 50 / 11 is reported as 4.5.
C1_ReportsRoundedUnits ==
    last.op = "cmdR" =>
        /\ Count(last.taken) = 10
        /\ last.out1 = last.out0 + 1
        /\ out[last.out1] = Num(PrintFloat(UnitsOfLast, 1))
        /\ (last.taken = Only(100, 10) /\ last.off0 = <<0, 1>> /\ last.sc0 = <<10, 1>>)
              => out[last.out1].val = <<10, 1>>
        /\ (last.taken = Only(50, 10) /\ last.off0 = <<50, 1>> /\ last.sc0 = <<1, 1>>)
              => out[last.out1].val = <<0, 1>>
        /\ (last.taken = Only(50, 10) /\ last.off0 = <<0, 1>> /\ last.sc0 = <<11, 1>>)
              => out[last.out1].val = <<9, 2>>

\* C1 witness: 'C10.0', newline, 'R' read with the samples constant at 100.
C1_Witness ==
    /\ last.op = "cmdR"
    /\ BytesGot = <<"C", "1", "0", ".", "0", "\n", "R">>
    /\ last.taken = Only(100, 10)
    /\ last.sc0 = <<10, 1>>

\* C2 as stated: after a 'C' command the scale is the value v of the literal
\* parsed, and the report echoed is v.
C2_EchoIsValue ==
    last.op = "cmdC" =>
        /\ SCALE = LitValue(last.lit)
        /\ scale = LitValue(last.lit)
        /\ last.out1 = last.out0 + 2
        /\ out[last.out0 + 1] = Text("Scale calibrated: ")
        /\ out[last.out1] = Num(LitValue(last.lit))

\* C2 amended: after a 'C' command the scale is the value v of the literal
\* parsed, zero and negative values included, and the report echoed is v
\* rounded to two decimal places.
C2_ScaleIsValueEchoRounded ==
    last.op = "cmdC" =>
        /\ SCALE = LitValue(last.lit)
        /\ scale = LitValue(last.lit)
        /\ last.out1 = last.out0 + 2
        /\ out[last.out0 + 1] = Text("Scale calibrated: ")
        /\ out[last.out1] = Num(PrintFloat(LitValue(last.lit), 2))

\* C2 witness: a negative literal has been parsed and is the scale.
C2_Witness ==
    /\ last.op = "cmdC"
    /\ last.lit = <<"-", "1">>
    /\ SCALE = <<0 - 1, 1>>

\* C3: reading a byte other than 'C', 'R', 'T', 'A' in the command loop
\* changes neither offset nor scale, takes no raw sample, prints nothing and
\* leaves the loop idle.
C3_OtherByteIgnored ==
    [][(pc = "idle" /\ rx # <<>> /\ Head(rx) \notin CommandBytes /\ got' # got)
          => /\ OFFSET' = OFFSET
             /\ SCALE' = SCALE
             /\ scale' = scale
             /\ nsamples' = nsamples
             /\ sum' = sum
             /\ out' = out
             /\ pc' = "idle"]_vars

\* C3 witness: an unrecognised byte has been read after a tare and a
\* calibration gave offset and scale other values than the initial ones.
C3_Witness ==
    /\ last.op = "other"
    /\ got[Len(got)].byte = "Z"
    /\ OFFSET # <<0, 1>>

\* C4 as stated: the instrument's scale is never zero.
C4_ScaleNeverZero == SCALE # <<0, 1>> /\ scale # <<0, 1>>

\* C4 amended: the scale is zero only when the 'C' command completed most
\* recently parsed the value zero (a literal denoting zero, or no number at
\* all); startup and every other command leave a non-zero scale non-zero.
C4_ZeroOnlyIfCalibratedZero ==
    (SCALE = <<0, 1>> \/ scale = <<0, 1>>) =>
        \E i \in 1..Len(log) :
            /\ log[i].op = "cmdC"
            /\ log[i].end >= 0
            /\ LitValue(log[i].lit) = <<0, 1>>
            /\ \A j \in (i + 1)..Len(log) : ~(log[j].op = "cmdC" /\ log[j].end >= 0)

\* C4 witness: 'C0' made the scale zero and an 'R' has then divided by it.
C4_Witness ==
    /\ SCALE = <<0, 1>>
    /\ last.op = "cmdR"
    /\ out[last.out1] = Num(Inf)

\* C5: the offset changes only as a tare dispatched by a 'T' byte completes;
\* setup and the commands 'C', 'R', 'A' and unrecognised bytes leave it alone.
C5_OffsetOnlyByTare ==
    [][OFFSET' # OFFSET => (LastCommand = "T" /\ pc = "cmdT" /\ pc' = "idle")]_vars

\* C5 witness: after a tare changed the offset, a calibration and a raw
\* average have completed and the offset is still the tare's.
C5_Witness ==
    /\ last.op = "cmdA"
    /\ BytesGot = <<"T", "C", "1", "1", "A">>
    /\ OFFSET # <<0, 1>>
    /\ OFFSET = last.off0

\* C6: the scale (the instrument's and the sketch's) is 1.0 at startup and
\* changes only as a calibration dispatched by a 'C' byte completes; setup
\* and the commands 'R', 'T', 'A' and unrecognised bytes leave it alone.
C6_ScaleOnlyByCalibrate ==
    /\ SCALE = <<1, 1>> /\ scale = <<1, 1>>
    /\ [][(SCALE' # SCALE \/ scale' # scale)
             => (LastCommand = "C" /\ pc \in Parsing /\ pc' = "idle")]_vars

\* C6 witness: a tare completed after a calibration and the scale is still
\* the calibrated one.
C6_Witness ==
    /\ last.op = "cmdT"
    /\ last.sc0 # <<1, 1>>
    /\ SCALE = last.sc0

\* C7: bytes are read in the order they arrive; a byte is read only when no
\* sampling command is in flight; at most one operation is in flight, and it
\* is the one begun last; the commands begun are those of the command bytes
\* read, in order; and what each operation printed lies in the output before
\* what the next one printed, nothing printed ever being changed.
C7_State ==
    /\ sent = BytesGot \o rx
    /\ \A i \in 1..Len(log) :
          log[i].end < 0 =>
              /\ i = Len(log)
              /\ pc = log[i].op \/ (log[i].op = "cmdC" /\ pc \in Parsing)
    /\ pc = "idle" => \A i \in 1..Len(log) : log[i].end >= 0
    /\ \A i \in 1..Len(log) :
          /\ log[i].start <= Len(out)
          /\ log[i].end >= 0 => (log[i].start <= log[i].end /\ log[i].end <= Len(out))
          /\ i < Len(log) => log[i].end <= log[i + 1].start
    /\ LET cmds == SelectSeq(got, IsCommand)
           ops == SelectSeq(log, IsLoopOp)
       IN  /\ Len(cmds) = Len(ops)
           /\ \A i \in 1..Len(ops) :
                 IF ops[i].op = "cmdC" THEN cmds[i].byte = "C"
                 ELSE ops[i].op = OpOf(cmds[i].byte)

C7_Step ==
    /\ got' # got => (pc = "idle" \/ pc \in Parsing)
    /\ Len(out') >= Len(out) /\ SubSeq(out', 1, Len(out)) = out

C8_State ==
    last.op = "cmdT" =>
        /\ Count(last.taken) = TareCount
        /\ OFFSET = MeanOf(last.taken)
        /\ last.out1 = last.out0

C8_TareSetsOffsetSilently == [](C8_State) /\ [][pc = "cmdT" => out' = out]_vars

\* C8 witness: the load changed during a tare, whose offset is the mean 60 of
\* four samples at 50 and one at 100.
C8_Witness ==
    /\ last.op = "cmdT"
    /\ last.taken[50] = 4 /\ last.taken[100] = 1
    /\ OFFSET = <<60, 1>>

\* C9: an 'A' command prints the mean of the 10 raw samples it took, whatever
\* the offset and the scale are.
C9_AveragePrintedRaw ==
    last.op = "cmdA" =>
        /\ Count(last.taken) = 10
        /\ last.out1 = last.out0 + 1
        /\ out[last.out1] = Num(MeanOf(last.taken))

\* C9 witness: an 'A' performed with a non-zero offset and a scale of 11.
C9_Witness ==
    /\ last.op = "cmdA"
    /\ last.off0 # <<0, 1>>
    /\ last.sc0 = <<11, 1>>
    /\ out[last.out1].val = last.off0

\* C10: setup performs read_raw, read_average(20), get_value(5) and
\* get_units(5) in this order, each once, printing each result after its
\* label, and reads no input byte before all four have completed.
C10_StartupDiagnostics ==
    /\ \A i \in 1..Len(log) :
          IF i <= 4 THEN log[i].op = SetupOrder[i] ELSE log[i].op \notin SetupOps
    /\ pc \in SetupOps \cup {"setup_begin"} => (got = <<>> /\ Len(log) <= 4)
    /\ pc \notin SetupOps \cup {"setup_begin"} => (Len(log) >= 4 /\ log[4].end >= 0)
    /\ (pc = "idle" /\ Len(log) = 4) => nsamples = 1 + 20 + 5 + 5
    /\ last.op = "setup_read" =>
          /\ Count(last.taken) = 1
          /\ out[last.out0] = Text(" + read: ")
          /\ out[last.out1] = Num(ToFloat(Total(last.taken)))
    /\ last.op = "setup_avg" =>
          /\ Count(last.taken) = 20
          /\ out[last.out0] = Text(" + read average: ")
          /\ out[last.out1] = Num(MeanOf(last.taken))
    /\ last.op = "setup_value" =>
          /\ Count(last.taken) = 5
          /\ out[last.out0] = Text(" + get value: ")
          /\ out[last.out1] = Num(FSub(MeanOf(last.taken), last.off0))
    /\ last.op = "setup_units" =>
          /\ Count(last.taken) = 5
          /\ out[last.out0] = Text(" + get units: ")
          /\ out[last.out1] = Num(UnitsOfLast)
    /\ last.op \in SetupOps => last.out1 = last.out0 + 1

\* C10 witness: setup has just completed while two bytes that arrived during
\* it are still waiting to be read.
C10_Witness ==
    /\ pc = "idle"
    /\ last.op = "setup_units"
    /\ Len(rx) = 2
    /\ got = <<>>
    /\ last.taken[50] > 0 /\ last.taken[100] > 0

\* Whether a literal holds a digit: without one (no byte, a lone sign or
\* point) no number was parsed.
HasDigit(lit) == \E i \in 1..Len(lit) : lit[i] \in Digits

\* Where in the bytes read the command dispatched last stands (0 before the
\* first).
LastCommandIndex ==
    LET idx == {i \in 1..Len(got) : got[i].use = "command"}
    IN  IF idx = {} THEN 0 ELSE CHOOSE i \in idx : \A j \in idx : j <= i

\* A 'C' command that parsed no number is the operation completed last and
\* nothing was dispatched after it.
BareCalibrateDone ==
    /\ pc = "idle"
    /\ last.op = "cmdC"
    /\ log[Len(log)].op = "cmdC"
    /\ ~HasDigit(last.lit)

\* C11: a 'C' command not followed by a parseable number sets the scale to
\* zero and prints only the ordinary echo (no failure is signalled), and the
\* bytes that follow the 'C' are dispatched: none is read and dropped.
C11_BareCalibrateZeroAndDispatch ==
    BareCalibrateDone =>
        /\ SCALE = <<0, 1>> /\ scale = <<0, 1>>
        /\ last.out1 = last.out0 + 2
        /\ out[last.out0 + 1] = Text("Scale calibrated: ")
        /\ out[last.out1] = Num(<<0, 1>>)
        /\ \A i \in 1..Len(got) : i > LastCommandIndex => got[i].use # "skipped"

\* The samples the read of an operation asks for.
TimesOf(op) ==
    CASE op = "setup_read" -> 1
      [] op = "setup_avg" -> SetupAverage
      [] op = "setup_value" -> SetupValueTimes
      [] op = "setup_units" -> SetupUnitsTimes
      [] op = "cmdT" -> TareCount
      [] OTHER -> avg_count

\* C12: read_average(n), as setup calls it with 20 and 'A' with avg_count,
\* takes exactly n raw samples, one after the other with nothing read or
\* printed in between, and returns (r_1 + ... + r_n) / n: while it runs the
\* samples taken and those still to take add up to n and the running sum is
\* their total, and what is printed is the total divided by n.
C12_State ==
    /\ pc \in {"setup_avg", "cmdA"} =>
          /\ Count(cur.taken) + need = TimesOf(pc)
          /\ sum = Total(cur.taken)
          /\ nsamples = cur.ns0 + Count(cur.taken)
    /\ last.op \in {"setup_avg", "cmdA"} =>
          /\ Count(last.taken) = TimesOf(last.op)
          /\ out[last.out1] =
                Num(Norm(Total(last.taken), IF last.op = "cmdA" THEN 10 ELSE 20))

C12_Step ==
    (pc \in {"setup_avg", "cmdA"} /\ need > 0) =>
        /\ pc' = pc /\ got' = got /\ out' = out
        /\ \/ need' = need /\ nsamples' = nsamples /\ sum' = sum
           \/ need' = need - 1 /\ nsamples' = nsamples + 1 /\ sum' - sum \in RawSamples

C12_ReadAverageIsMean == [](C12_State) /\ [][C12_Step]_vars

\* C12 witness: an 'A' averaged three samples at 50 and seven at 100 and
\* printed 85.
C12_Witness ==
    /\ last.op = "cmdA"
    /\ last.taken[50] = 3 /\ last.taken[100] = 7
    /\ out[last.out1] = Num(<<85, 1>>)

\* C13: get_value(n) is read_average(n) less the offset held when it is
\* called: setup's get_value(5) prints the mean of its samples less that
\* offset, and so does an 'R' at scale 1 (where get_units is get_value); the
\* offset does not change while either runs; and a tare that changes the
\* offset prints nothing and no step alters what has been printed: the
\* output so far is a prefix of the output after every later step.
C13_State ==
    /\ pc \in {"setup_value", "cmdR"} => OFFSET = cur.off0
    /\ last.op = "setup_value" =>
          out[last.out1] = Num(FSub(MeanOf(last.taken), last.off0))
    /\ (last.op = "cmdR" /\ last.sc0 = <<1, 1>>) =>
          out[last.out1] = Num(FSub(MeanOf(last.taken), last.off0))

C13_Step ==
    /\ Len(out') >= Len(out) /\ SubSeq(out', 1, Len(out)) = out
    /\ OFFSET' # OFFSET => out' = out

C13_ValueUsesOffsetAtCall == [](C13_State) /\ [][C13_Step]_vars

\* C13 witness: a tare at 50, an 'R' with the samples at 100 that reported
\* 50.0, then a tare at 100: the offset is now 100 and the report still 50.0.
C13_Witness ==
    /\ BytesGot = <<"T", "R", "T">>
    /\ last.op = "cmdT"
    /\ last.off0 = <<50, 1>>
    /\ OFFSET = <<100, 1>>
    /\ out[Len(out)] = Num(<<50, 1>>)

\* Whether an operation of the given kinds has completed, and whether one
\* has begun.
Completed(ops) == \E i \in 1..Len(log) : log[i].op \in ops /\ log[i].end >= 0
Begun(ops) == \E i \in 1..Len(log) : log[i].op \in ops

\* C14: until the first tare completes the offset is 0 and until the first
\* calibration completes the scale is 1.0; setup's get_value(5) and
\* get_units(5), and an 'R' performed before any 'T' and 'C', print the plain
\* mean of the raw samples they took.
C14_DefaultsGivePlainMean ==
    /\ ~Completed({"cmdT"}) => OFFSET = <<0, 1>>
    /\ ~Completed({"cmdC"}) => (SCALE = <<1, 1>> /\ scale = <<1, 1>>)
    /\ last.op \in {"setup_value", "setup_units"} =>
          /\ last.off0 = <<0, 1>> /\ last.sc0 = <<1, 1>>
          /\ out[last.out1] = Num(MeanOf(last.taken))
    /\ (last.op = "cmdR" /\ ~Begun({"cmdT", "cmdC"})) =>
          /\ last.off0 = <<0, 1>> /\ last.sc0 = <<1, 1>>
          /\ out[last.out1] = Num(MeanOf(last.taken))

\* C14 witness: an 'R' before any tare and calibration averaged four samples
\* at 50 and six at 100 and reported 80.
C14_Witness ==
    /\ last.op = "cmdR"
    /\ ~Begun({"cmdT", "cmdC"})
    /\ last.taken[50] = 4 /\ last.taken[100] = 6
    /\ out[last.out1] = Num(<<80, 1>>)

\* C15: when a tare completes right after another tare and the raw samples
\* of both were constant at the same value, it leaves the offset as the
\* first tare set it.
C15_TareTwiceSameOffset ==
    [][(/\ pc = "cmdT" /\ pc' = "idle"
        /\ last.op = "cmdT"
        /\ \E r \in RawSamples :
              /\ last.taken = Only(r, TareCount)
              /\ cur.taken = Only(r, TareCount))
          => OFFSET' = OFFSET]_vars

\* C15 witness: 'T' twice with the samples constant at 50: the first tare
\* moved the offset from 0 to 50, the second found 50 and left 50.
C15_Witness ==
    /\ BytesGot = <<"T", "T">>
    /\ pc = "idle"
    /\ last.op = "cmdT"
    /\ log[Len(log) - 1].op = "cmdT"
    /\ last.taken = Only(50, TareCount)
    /\ last.off0 = <<50, 1>>
    /\ OFFSET = <<50, 1>>

\* C17: a raw read has no timeout.  While setup or an 'R', 'T' or 'A' still
\* has samples to take, a step in which the channel delivers none leaves the
\* operation where it is: it does not complete, no byte is read, nothing is
\* printed, offset and scale keep their values and no operation begins.  A
\* channel that never becomes ready again therefore holds the sketch there
\* for ever, whatever arrives on the serial port.
C17_State ==
    (pc \in Sampling /\ need > 0) =>
        /\ log[Len(log)].op = pc
        /\ log[Len(log)].end < 0

C17_Step ==
    (pc \in Sampling /\ need > 0 /\ nsamples' = nsamples) =>
        /\ pc' = pc /\ need' = need /\ sum' = sum
        /\ got' = got
        /\ out' = out
        /\ inst' = inst
        /\ log' = log

C17_StalledReadStallsAll == [](C17_State) /\ [][C17_Step]_vars

\* C17 witness: a tare has two of its samples and waits for the third while
\* the 'R' and the 'T' sent after it wait in the receive buffer.
C17_Witness ==
    /\ pc = "cmdT"
    /\ need = TareCount - 2
    /\ rx = <<"R", "T">>
    /\ BytesGot = <<"T">>

\* C18: every received byte in {'C', 'R', 'T', 'A'} is performed.  Once the
\* loop is idle with nothing left to read, every byte received has been read,
\* so every command byte received must by then have been dispatched as a
\* command.
C18_ReceivedCommandsPerformed ==
    (pc = "idle" /\ rx = <<>>) =>
        \A k \in 1..Len(sent) :
            sent[k] \in CommandBytes => (k <= Len(got) /\ got[k].use = "command")

\* C19: the command loop has no terminal state.  In every reachable state
\* the sketch is at a place from which it can take a further step, the
\* channel delivering the samples asked for: setup goes on to its next
\* reading, a raw read can be taken while samples are missing and the
\* operation completes once they are there, parseFloat goes on with or
\* without a byte, the idle loop reads a waiting byte whatever its value and
\* passes when there is none.  Where get_value or get_units completes the
\* value to print is defined whatever offset and scale are (a division by a
\* zero scale gives inf or nan, which println prints).  And once the
\* operation begun last has completed the loop is idle again.
C19_NoTerminalState ==
    /\ pc \in {"setup_begin", "idle"} \cup Sampling \cup Parsing
    /\ pc = "setup_begin" => ENABLED SetupBegin
    /\ (pc \in Sampling /\ need > 0) => ENABLED ReadRaw
    /\ (pc \in {"setup_read", "setup_avg"} /\ need = 0) => ENABLED (SetupRead \/ SetupAvg)
    /\ (pc \in {"cmdT", "cmdA"} /\ need = 0) =>
          ENABLED ((CmdTDone \/ CmdADone) /\ pc' = "idle")
    /\ (pc \in {"setup_value", "setup_units", "cmdR"} /\ need = 0) =>
          LET avg == read_average(sum, TimesOf(pc))
              v == IF pc = "setup_value" THEN get_value(avg, OFFSET)
                   ELSE get_units(avg, OFFSET, SCALE)
          IN  v[1] \in Int /\ v[2] \in Nat
    /\ pc \in Parsing =>
          ENABLED (ParseSkip \/ ParseFirst \/ ParseMore \/ ParseStop \/ ParseTimeout)
    /\ (pc = "idle" /\ rx # <<>>) =>
          ENABLED ((CmdR \/ CmdT \/ CmdA \/ CmdC \/ CmdOther) /\ rx' = Tail(rx))
    /\ (pc = "idle" /\ rx = <<>>) => ENABLED LoopIdle
    /\ (Len(log) > 0 /\ log[Len(log)].end >= 0) => pc = "idle"

\* C19 witness: after an 'R' and a calibration the loop is idle again with a
\* further byte waiting to be read.
C19_Witness ==
    /\ pc = "idle"
    /\ BytesGot = <<"R", "C", "1">>
    /\ rx = <<"Z">>
    /\ last.op = "cmdC"

\* C20: with the loop idle and no byte waiting, a pass through loop() does
\* nothing.  The only step of the sketch possible there is the empty pass: no
\* dispatch, no raw read, no completion and no parsing step is enabled; and
\* any step taken there, other than the host sending a byte, takes no raw
\* sample, prints nothing, reads nothing and leaves offset and scale as they
\* are and the loop idle.
C20_State ==
    (pc = "idle" /\ rx = <<>>) =>
        /\ ENABLED LoopIdle
        /\ ~ENABLED (CmdR \/ CmdT \/ CmdA \/ CmdC \/ CmdOther)
        /\ ~ENABLED (ReadRaw \/ CmdRDone \/ CmdTDone \/ CmdADone)
        /\ ~ENABLED (ParseSkip \/ ParseFirst \/ ParseMore \/ ParseStop \/ ParseTimeout)
        /\ ~ENABLED (SetupBegin \/ SetupRead \/ SetupAvg \/ SetupValue \/ SetupUnits)

C20_Step ==
    (pc = "idle" /\ rx = <<>> /\ sent' = sent) =>
        /\ nsamples' = nsamples /\ sum' = sum /\ need' = need
        /\ out' = out
        /\ got' = got
        /\ OFFSET' = OFFSET /\ SCALE' = SCALE /\ scale' = scale
        /\ pc' = "idle"

C20_IdlePassDoesNothing == [](C20_State) /\ [][C20_Step]_vars

\* C20 witness: after a tare, a calibration and an 'A' the loop is idle with
\* nothing to read, the offset and the scale being those the commands set.
C20_Witness ==
    /\ pc = "idle"
    /\ rx = <<>>
    /\ BytesGot = <<"T", "C", "1", "1", "A">>
    /\ last.op = "cmdA"
    /\ OFFSET # <<0, 1>>
    /\ SCALE = <<11, 1>>

\* How each byte read was used, in order.
UsesGot == [i \in 1..Len(got) |-> got[i].use]

\* C21: the bytes parseFloat consumes as the literal of a 'C' command are
\* not dispatched: they are numeric bytes, each follows the 'C', a skipped
\* byte or another byte of the literal, and every byte read is either one
\* operation begun or a byte parseFloat took.  The byte read next after a
\* literal is dispatched as a command, never dropped: of 'C10.0', newline,
\* 'R', the literal 10.0 having been consumed whole, the newline is
\* dispatched (and ignored) and the 'R' is performed.
\* While the literal is being read nothing is begun, printed or changed, and
\* parseFloat returns without taking the byte that ended the literal.
C21_State ==
    /\ \A i \in 1..Len(got) :
          got[i].use = "number" =>
              /\ got[i].byte \in Digits \cup {"-", "."}
              /\ i > 1
              /\ got[i - 1].use = "command" => got[i - 1].byte = "C"
    /\ Len(SelectSeq(log, IsLoopOp))
          + Cardinality({i \in 1..Len(got) : got[i].use \in {"number", "skipped"}})
          = Len(got)
    /\ \A i \in 1..(Len(got) - 1) :
          (got[i].use = "number" /\ got[i + 1].use # "number")
              => got[i + 1].use = "command"
    /\ (/\ pc = "idle" /\ rx = <<>>
        /\ sent = <<"C", "1", "0", ".", "0", "\n", "R">>
        /\ \E i \in 1..Len(log) : log[i].lit = <<"1", "0", ".", "0">>) =>
          /\ BytesGot = sent
          /\ UsesGot = <<"command", "number", "number", "number", "number",
                         "command", "command">>
          /\ log[Len(log) - 2].op = "cmdC" /\ log[Len(log) - 2].lit = <<"1", "0", ".", "0">>
          /\ log[Len(log) - 1].op = "other"
          /\ last.op = "cmdR" /\ Count(last.taken) = avg_count

C21_Step ==
    /\ (pc = "parse_num" /\ got' # got) =>
          /\ pc' = "parse_num"
          /\ log' = log /\ out' = out /\ inst' = inst /\ nsamples' = nsamples
          /\ got'[Len(got')].use = "number"
    /\ (pc = "parse_num" /\ pc' # "parse_num") =>
          /\ pc' = "idle"
          /\ got' = got /\ rx' = rx

C21_LiteralNotDispatched == [](C21_State) /\ [][C21_Step]_vars

\* C21 witness: 'C10.0', newline, 'R' have been read; the newline was
\* dispatched and the 'R' reported the reading at scale 10.
C21_Witness ==
    /\ pc = "idle"
    /\ BytesGot = <<"C", "1", "0", ".", "0", "\n", "R">>
    /\ got[6] = [byte |-> "\n", use |-> "command"]
    /\ got[7] = [byte |-> "R", use |-> "command"]
    /\ last.op = "cmdR"
    /\ last.sc0 = <<10, 1>>

\* C22: the sketch's global scale always equals the scale the instrument
\* holds.  Both are 1.0 until a calibration completes; the step that
\* completes a 'C' command gives both the value parseFloat returned (0 when
\* no number started); and no other step writes either.
C22_State ==
    /\ scale = SCALE
    /\ ~Completed({"cmdC"}) => scale = ToFloat(1)

C22_Step ==
    IF pc \in Parsing /\ pc' = "idle"
    THEN LET v == IF pc = "parse_skip" THEN ToFloat(0) ELSE ParseValue(pv)
         IN  scale' = v /\ SCALE' = v
    ELSE scale' = scale /\ SCALE' = SCALE

C22_ScalesAgree == [](C22_State) /\ [][C22_Step]_vars

\* C22 witness: 'C1' then 'C0': after the second calibration both scales
\* hold its value 0, having both held 1 after the first.
C22_Witness ==
    /\ BytesGot = <<"C", "1", "C", "0">>
    /\ pc = "idle"
    /\ last.op = "cmdC"
    /\ last.sc0 = <<1, 1>>
    /\ log[Len(log) - 1].op = "cmdC" /\ log[Len(log) - 1].lit = <<"1">>
    /\ scale = <<0, 1>> /\ SCALE = <<0, 1>>

\* The keys of the two derived entries.
Derived == {"Payload cap. (g)", "Fd (N)"}

\* Whether the step is a __setitem__ call.
IsSetItem == ncalls' = ncalls + 1

\* C23: after construction and after every __setitem__ that raised nothing,
\* the 'Payload cap. (g)' entry is m_lift - 'Mylar mass (g)' - 'Tissue mass
\* (g)' and the 'Fd (N)' entry is drag() of the current 'H (cm)'; when the
\* call assigned to one of the two, the entry holds the recomputed value and
\* not the one assigned.  (Such a call found numbers in the three entries the
\* derived ones are computed from.)
C23_DerivedEntriesCurrent ==
    raised = "" =>
        /\ \A k \in {"H (cm)", "Mylar mass (g)", "Tissue mass (g)"} :
              IsNumber(__getitem__(self, k))
        /\ __getitem__(self, "Payload cap. (g)") =
              PySub(PySub(self.m_lift, __getitem__(self, "Mylar mass (g)")),
                    __getitem__(self, "Tissue mass (g)"))
        /\ __getitem__(self, "Fd (N)") = drag(self)
        /\ call.key \in Derived =>
              __getitem__(self, call.key) =
                  IF call.key = "Fd (N)" THEN drag(self) ELSE payload_capacity(self)
        /\ \A k \in Derived : IsNumber(__getitem__(self, k))

\* C23 witness: 'H (cm)' was set to 10, then 10 was assigned to 'Payload cap.
\* (g)': the payload entry is not 10 and the drag is that of a height of 10.
C23_Witness ==
    /\ raised = ""
    /\ call = [key |-> "Payload cap. (g)", item |-> ToFloat(10)]
    /\ __getitem__(self, "H (cm)") = ToFloat(10)
    /\ __getitem__(self, "Payload cap. (g)") # ToFloat(10)
    /\ __getitem__(self, "Fd (N)") = Norm(4648644, 100000000)

\* C24: a __setitem__ call with a key that is not in prop_keys raises
\* KeyError and leaves the object as it was: every entry keeps its value,
\* none is added, and the derived entries are not recomputed (entries a
\* failed call left out of date stay out of date).
C24_BadKeyRaisesAndKeeps ==
    [][(IsSetItem /\ ~In(call'.key, prop_keys))
          => /\ raised' = "KeyError"
             /\ DOMAIN self'.prop_table = DOMAIN self.prop_table
             /\ \A k \in DOMAIN self.prop_table : self'.prop_table[k] = self.prop_table[k]
             /\ self' = self]_vars

\* C24 witness: None was assigned to 'Mylar mass (g)' and 10 to 'H (cm)',
\* both calls failing before the drag was recomputed; then 'Lift (g)' was
\* assigned: KeyError, the table has its eight entries and the drag is still
\* not that of the height 10.
C24_Witness ==
    /\ raised = "KeyError"
    /\ call.key = "Lift (g)"
    /\ DOMAIN self.prop_table = {prop_keys[i] : i \in 1..Len(prop_keys)}
    /\ __getitem__(self, "Mylar mass (g)") = None
    /\ __getitem__(self, "H (cm)") = ToFloat(10)
    /\ __getitem__(self, "Fd (N)") # drag(self)

\* C25: a __setitem__ call with a key in prop_keys changes no entry but that
\* key's and the two derived ones, adds none, and leaves the attributes
\* m_lift, r_cyl, t_shell_offset, u_wind (and c_d_cyl) as they were; the
\* entry of a key that is not derived holds the item assigned.
C25_SetItemFrame ==
    [][(IsSetItem /\ In(call'.key, prop_keys))
          => /\ DOMAIN self'.prop_table = DOMAIN self.prop_table
             /\ \A k \in DOMAIN self.prop_table :
                   k \notin Derived \cup {call'.key}
                       => self'.prop_table[k] = self.prop_table[k]
             /\ call'.key \notin Derived => self'.prop_table[call'.key] = call'.item
             /\ self'.m_lift = self.m_lift
             /\ self'.r_cyl = self.r_cyl
             /\ self'.t_shell_offset = self.t_shell_offset
             /\ self'.u_wind = self.u_wind
             /\ self'.c_d_cyl = self.c_d_cyl]_vars

\* C25 witness: the first call on a 100 g helium lantern set 'H (cm)' to 10:
\* volume, areas and masses are those of construction, the height is not,
\* and the attributes are the constructor's arguments.
C25_Witness ==
    LET made == __init__(ToFloat(100), "He", ToFloat(r_cyl), ToFloat(shell_offset),
                         ToFloat(u_wind_max))
    IN  /\ ncalls = 1
        /\ raised = ""
        /\ call = [key |-> "H (cm)", item |-> ToFloat(10)]
        /\ \A k \in {"Volume (L)", "S (cm2)", "So (cm2)", "Mylar mass (g)",
                     "Tissue mass (g)"} : self.prop_table[k] = made.prop_table[k]
        /\ __getitem__(self, "H (cm)") # made.prop_table["H (cm)"]
        /\ __getitem__(self, "Fd (N)") # made.prop_table["Fd (N)"]
        /\ self.m_lift = ToFloat(100) /\ self.r_cyl = ToFloat(r_cyl)
        /\ self.t_shell_offset = ToFloat(shell_offset)
        /\ self.u_wind = ToFloat(u_wind_max)

====
